---- MODULE Spec2Model ----
(***************************************************************************)
(* sherlock: a distributed mutex over a memcache key, and the guard (main) *)
(* that runs a command under it.  Model of src/sherlock.py.                *)
(*                                                                         *)
(* Every guard process p runs main(); a finished one may be invoked again. *)
(* The store holds one key; the                                            *)
(* value written by add is a timestamp that nothing reads back, so the     *)
(* model keeps, instead of the timestamp, the identity of the process      *)
(* whose add created the record.                                           *)
(***************************************************************************)
EXTENDS Integers, FiniteSets, Sequences, TLC

\* ---------------------------------------------------------------- bounds
NumProcs == 2          \* guard processes sharing the key
MaxCount == 2          \* the per-process call counters saturate here

Procs == 1..NumProcs

\* exit codes the guarded command may end with, and the signal that may kill it
\* (exit code 0 is the code of the forked process that ends in main after a
\* failed exec)
ExitCodes == {7}
Signals == {9}

NoRecord == 0          \* the key is absent from the store
NoStatus == -1         \* no wait status / no exit status yet

VARIABLES
    cache,        \* the store at KEY: NoRecord, or the process whose add created the record
    pc,           \* where each guard process is in main()
    retry,        \* MemcacheMutex.retry of each guard
    stats,        \* what cli.get_stats() answered in __init__: TRUE iff a server is reachable
    outcome,      \* of acquire(): "none", "acquired", "denied"
    fault,        \* what raised inside run_process: "none", "fork", "exec", "wait"
    child,        \* the forked process: "none", "forked", "running", "cleanup", "zombie", "reaped"
    status,       \* wait status word the child left for waitpid
    ret,          \* main's local ret
    exitStatus,   \* the status the guard process ended with
    addCount,     \* calls of cli.add made by the guard
    sleepCount,   \* calls of time.sleep made by the guard
    delCount,     \* calls of cli.delete made by the guard process itself
    cdelCount     \* calls of cli.delete made by the forked child running the guard's code

vars == <<cache, pc, retry, stats, outcome, fault, child, status, ret, exitStatus,
          addCount, sleepCount, delCount, cdelCount>>

\* ------------------------------------------------------------ pure helpers
Bump(n) == IF n < MaxCount THEN n + 1 ELSE MaxCount

\* the 16-bit status word waitpid reports for a child that called exit(c)
WExitWord(c) == ((c % 256) * 256) % 65536
\* the status word waitpid reports for a child killed by signal s
WSignalWord(s) == s % 128

\* decoding of a status word (WIFEXITED / WEXITSTATUS)
WIFEXITED(w) == w % 128 = 0
WEXITSTATUS(w) == (w \div 256) % 256

\* exit(ret): the operating system keeps the low 8 bits of the argument
ProcessExitCode(r) == r % 256

\* panic(err): SystemExit with a string argument ends the process with status 1
PanicStatus == 1

\* faulty variant: the add reports success whether or not the key was there
AddSucceeds_Always(c) == TRUE

\* faulty variant: the add overwrites a record that is already there (a set)
AddResult_Overwrites(c, p) == p

\* cli.add(key, value): atomic create-if-absent, TRUE iff the key was absent
AddSucceeds(c) == c = NoRecord
AddResult(c, p) == IF c = NoRecord THEN p ELSE c

\* faulty variant: the delete does not remove the record
DeleteResult_Keeps(c) == c

\* cli.delete(key): the key is absent afterwards, whoever created it
DeleteResult(c) == NoRecord

\* faulty variant: the release compares an ownership token and deletes only
\* the caller's own record
ReleaseResult_Checked(c, p) == IF c = p THEN NoRecord ELSE c

\* mutex.release() by p: self.cli.delete(self.key), no ownership comparison
ReleaseResult(c, p) == DeleteResult(c)

\* faulty variant: a denied acquire leaves main without passing through finally
AfterAdd_SkipsRelease(added, rtry) ==
    IF added THEN "fork"
    ELSE IF ~rtry THEN "exit"
    ELSE "sleep"

\* faulty variant: a denied acquire falls out of the loop and the command is run
AfterAdd_DeniedRuns(added, rtry) ==
    IF added THEN "fork"
    ELSE IF ~rtry THEN "fork"
    ELSE "sleep"

\* faulty variant: the retry flag is ignored and every failed add sleeps
AfterAdd_AlwaysRetries(added, rtry) ==
    IF added THEN "fork"
    ELSE "sleep"

\* faulty variant: the retry flag is ignored and every failed add gives up
AfterAdd_NeverRetries(added, rtry) ==
    IF added THEN "fork"
    ELSE "release"

\* where acquire() leaves main after one cli.add
AfterAdd(added, rtry) ==
    IF added THEN "fork"
    ELSE IF ~rtry THEN "release"
    ELSE "sleep"

\* ------------------------------------------------------------------- Init
Init ==
    /\ cache = NoRecord
    /\ pc = [p \in Procs |-> "start"]
    /\ retry = [p \in Procs |-> TRUE]
    /\ stats = [p \in Procs |-> TRUE]
    /\ outcome = [p \in Procs |-> "none"]
    /\ fault = [p \in Procs |-> "none"]
    /\ child = [p \in Procs |-> "none"]
    /\ status = [p \in Procs |-> NoStatus]
    /\ ret = [p \in Procs |-> 0]
    /\ exitStatus = [p \in Procs |-> NoStatus]
    /\ addCount = [p \in Procs |-> 0]
    /\ sleepCount = [p \in Procs |-> 0]
    /\ delCount = [p \in Procs |-> 0]
    /\ cdelCount = [p \in Procs |-> 0]

\* ---------------------------------------------------------------- actions
\* main up to MemcacheMutex.__init__: parse -once, connect, health check
\* faulty variant: the health check's answer is ignored
ConstructNext_IgnoresStats(up) == "acquire"

ConstructNext(up) == IF up THEN "acquire" ELSE "aborted"
ConstructExit(up) == IF up THEN NoStatus ELSE PanicStatus

Construct(p) ==
    /\ pc[p] = "start"
    /\ \E once \in BOOLEAN, up \in BOOLEAN :
          /\ retry' = [retry EXCEPT ![p] = ~once]
          /\ stats' = [stats EXCEPT ![p] = up]
          /\ pc' = [pc EXCEPT ![p] = ConstructNext(up)]
          /\ exitStatus' = [exitStatus EXCEPT ![p] = ConstructExit(up)]
    /\ UNCHANGED <<cache, outcome, fault, child, status, ret,
                   addCount, sleepCount, delCount, cdelCount>>

\* one iteration of the while condition of acquire(): cli.add and what follows
Add(p) ==
    /\ pc[p] = "acquire"
    /\ addCount' = [addCount EXCEPT ![p] = Bump(@)]
    /\ cache' = AddResult(cache, p)
    /\ pc' = [pc EXCEPT ![p] = AfterAdd(AddSucceeds(cache), retry[p])]
    /\ outcome' = [outcome EXCEPT ![p] =
                      IF AddSucceeds(cache) THEN "acquired"
                      ELSE IF ~retry[p] THEN "denied" ELSE @]
    /\ UNCHANGED <<retry, stats, fault, child, status, ret, exitStatus,
                   sleepCount, delCount, cdelCount>>

\* time.sleep(0.1) in the retry loop
Sleep(p) ==
    /\ pc[p] = "sleep"
    /\ sleepCount' = [sleepCount EXCEPT ![p] = Bump(@)]
    /\ pc' = [pc EXCEPT ![p] = "acquire"]
    /\ UNCHANGED <<cache, retry, stats, outcome, fault, child, status, ret, exitStatus,
                   addCount, delCount, cdelCount>>

\* faulty variant: an exception out of run_process ends main without finally
OnException_NoCleanup == "exit"

\* where main goes when run_process raises: except Exception, then finally
OnException == "release"

\* faulty variant: run_process does not wait for the child it forked
AfterFork_NoWait == "release"

\* where the parent goes after a successful fork: os.waitpid(pid, 0)
AfterFork == "wait"

\* os.fork() in run_process: a child is created, or fork raises in the parent
Fork(p) ==
    /\ pc[p] = "fork"
    /\ \/ /\ child' = [child EXCEPT ![p] = "forked"]
          /\ pc' = [pc EXCEPT ![p] = AfterFork]
          /\ UNCHANGED fault
       \/ /\ fault' = [fault EXCEPT ![p] = "fork"]
          /\ pc' = [pc EXCEPT ![p] = OnException]
          /\ UNCHANGED child
    /\ UNCHANGED <<cache, retry, stats, outcome, status, ret, exitStatus,
                   addCount, sleepCount, delCount, cdelCount>>

\* os.execvp in the child: the command replaces the child, or execvp raises
\* and the child goes on running main's except/finally
Exec(p) ==
    /\ child[p] = "forked"
    /\ \/ /\ child' = [child EXCEPT ![p] = "running"]
          /\ UNCHANGED fault
       \/ /\ child' = [child EXCEPT ![p] = "cleanup"]
          /\ fault' = [fault EXCEPT ![p] = "exec"]
    /\ UNCHANGED <<cache, pc, retry, stats, outcome, status, ret, exitStatus,
                   addCount, sleepCount, delCount, cdelCount>>

\* the child after a failed exec: except Exception, finally mutex.release(),
\* exit(ret) with main's ret still 0
ChildCleanup(p) ==
    /\ child[p] = "cleanup"
    /\ cache' = ReleaseResult(cache, p)
    /\ cdelCount' = [cdelCount EXCEPT ![p] = Bump(@)]
    /\ status' = [status EXCEPT ![p] = WExitWord(ProcessExitCode(0))]
    /\ child' = [child EXCEPT ![p] = "zombie"]
    /\ UNCHANGED <<pc, retry, stats, outcome, fault, ret, exitStatus,
                   addCount, sleepCount, delCount>>

\* the guarded command ends: exit(c), or killed by a signal
ChildTerminate(p) ==
    /\ child[p] = "running"
    /\ \/ \E c \in ExitCodes : status' = [status EXCEPT ![p] = WExitWord(c)]
       \/ \E s \in Signals : status' = [status EXCEPT ![p] = WSignalWord(s)]
    /\ child' = [child EXCEPT ![p] = "zombie"]
    /\ UNCHANGED <<cache, pc, retry, stats, outcome, fault, ret, exitStatus,
                   addCount, sleepCount, delCount, cdelCount>>

\* os.waitpid(pid, 0) returns: ret is the raw status word
WaitRet(w) == w

Wait(p) ==
    /\ pc[p] = "wait"
    /\ child[p] = "zombie"
    /\ ret' = [ret EXCEPT ![p] = WaitRet(status[p])]
    /\ child' = [child EXCEPT ![p] = "reaped"]
    /\ pc' = [pc EXCEPT ![p] = "release"]
    /\ UNCHANGED <<cache, retry, stats, outcome, fault, status, exitStatus,
                   addCount, sleepCount, delCount, cdelCount>>

\* os.waitpid raises in the parent (ECHILD: the terminated child was already
\* collected, as when SIGCHLD is ignored); no handler is installed that could
\* interrupt the call earlier.  Caught by except Exception, ret stays 0
WaitFail(p) ==
    /\ pc[p] = "wait"
    /\ child[p] = "zombie"
    /\ fault[p] = "none"
    /\ fault' = [fault EXCEPT ![p] = "wait"]
    /\ child' = [child EXCEPT ![p] = "reaped"]
    /\ pc' = [pc EXCEPT ![p] = OnException]
    /\ UNCHANGED <<cache, retry, stats, outcome, status, ret, exitStatus,
                   addCount, sleepCount, delCount, cdelCount>>

\* finally: mutex.release()
AfterRelease == "exit"

Release(p) ==
    /\ pc[p] = "release"
    /\ cache' = ReleaseResult(cache, p)
    /\ delCount' = [delCount EXCEPT ![p] = Bump(@)]
    /\ pc' = [pc EXCEPT ![p] = AfterRelease]
    /\ UNCHANGED <<retry, stats, outcome, fault, child, status, ret, exitStatus,
                   addCount, sleepCount, cdelCount>>

\* logging.shutdown(); exit(ret)
Exit(p) ==
    /\ pc[p] = "exit"
    /\ exitStatus' = [exitStatus EXCEPT ![p] = ProcessExitCode(ret[p])]
    /\ pc' = [pc EXCEPT ![p] = "done"]
    /\ UNCHANGED <<cache, retry, stats, outcome, fault, child, status, ret,
                   addCount, sleepCount, delCount, cdelCount>>

\* the program is invoked again (if __name__ == '__main__': main()) once the
\* previous invocation has ended
Restart(p) ==
    /\ pc[p] \in {"done", "aborted"}
    /\ pc' = [pc EXCEPT ![p] = "start"]
    /\ retry' = [retry EXCEPT ![p] = TRUE]
    /\ stats' = [stats EXCEPT ![p] = TRUE]
    /\ outcome' = [outcome EXCEPT ![p] = "none"]
    /\ fault' = [fault EXCEPT ![p] = "none"]
    /\ child' = [child EXCEPT ![p] = "none"]
    /\ status' = [status EXCEPT ![p] = NoStatus]
    /\ ret' = [ret EXCEPT ![p] = 0]
    /\ exitStatus' = [exitStatus EXCEPT ![p] = NoStatus]
    /\ addCount' = [addCount EXCEPT ![p] = 0]
    /\ sleepCount' = [sleepCount EXCEPT ![p] = 0]
    /\ delCount' = [delCount EXCEPT ![p] = 0]
    /\ cdelCount' = [cdelCount EXCEPT ![p] = 0]
    /\ UNCHANGED cache

Next ==
    \E p \in Procs :
        \/ Construct(p)
        \/ Add(p)
        \/ Sleep(p)
        \/ Fork(p)
        \/ Exec(p)
        \/ ChildCleanup(p)
        \/ ChildTerminate(p)
        \/ Wait(p)
        \/ WaitFail(p)
        \/ Release(p)
        \/ Exit(p)
        \/ Restart(p)

Spec == Init /\ [][Next]_vars

\* the guard process is killed (or dies of an error nothing catches) anywhere
\* between the construction of the mutex and exit: nothing of main runs any
\* more, finally included; a process it forked lives on
Crash(p) ==
    /\ pc[p] \in {"acquire", "sleep", "fork", "wait", "release", "exit"}
    /\ pc' = [pc EXCEPT ![p] = "crashed"]
    /\ UNCHANGED <<cache, retry, stats, outcome, fault, child, status, ret, exitStatus,
                   addCount, sleepCount, delCount, cdelCount>>

NextCrash ==
    \/ Next
    \/ \E p \in Procs : Crash(p)

\* the guards with processes that may be killed
SpecCrash == Init /\ [][NextCrash]_vars

\* the steps of the guard process p running main once, and of the process it forks
GuardStep(p) ==
    \/ Construct(p)
    \/ Add(p)
    \/ Sleep(p)
    \/ Fork(p)
    \/ Wait(p)
    \/ WaitFail(p)
    \/ Release(p)
    \/ Exit(p)

ChildStep(p) ==
    \/ Exec(p)
    \/ ChildCleanup(p)
    \/ ChildTerminate(p)

NextOnce == \E p \in Procs : GuardStep(p) \/ ChildStep(p)

\* every live process keeps being scheduled, and a running command ends
FairOnce == \A p \in Procs : WF_vars(GuardStep(p)) /\ WF_vars(ChildStep(p))

\* a finite set of guards, each invoked once, none killed
SpecOnce == Init /\ [][NextOnce]_vars /\ FairOnce

\* the steps of guard p when an invocation that has ended is followed by another
GuardLife(p) == GuardStep(p) \/ Restart(p)

FairAgain == \A p \in Procs : WF_vars(GuardLife(p)) /\ WF_vars(ChildStep(p))

\* guards invoked again and again, every process scheduled weakly fairly
SpecAgain == Init /\ [][Next]_vars /\ FairAgain

\* main invoked without -once, and an execvp that finds its command
ConstructRetry(p) == Construct(p) /\ retry'[p]
ExecOk(p) == Exec(p) /\ child'[p] = "running"

NextRetry ==
    \E p \in Procs :
        \/ ConstructRetry(p)
        \/ Add(p)
        \/ Sleep(p)
        \/ Fork(p)
        \/ ExecOk(p)
        \/ ChildTerminate(p)
        \/ Wait(p)
        \/ WaitFail(p)
        \/ Release(p)
        \/ Exit(p)
        \/ Restart(p)

\* guards that all run in retry mode and whose commands can be executed
SpecRetry == Init /\ [][NextRetry]_vars

TypeOK ==
    /\ cache \in {NoRecord} \cup Procs
    /\ pc \in [Procs -> {"start", "aborted", "acquire", "sleep", "fork", "wait",
                         "release", "exit", "done", "crashed"}]
    /\ retry \in [Procs -> BOOLEAN]
    /\ stats \in [Procs -> BOOLEAN]
    /\ outcome \in [Procs -> {"none", "acquired", "denied"}]
    /\ fault \in [Procs -> {"none", "fork", "exec", "wait"}]
    /\ child \in [Procs -> {"none", "forked", "running", "cleanup", "zombie", "reaped"}]
    /\ ret \in [Procs -> 0..65535]
    /\ exitStatus \in [Procs -> {NoStatus} \cup 0..255]

\* ------------------------------------------------------------- vocabulary
\* the guarded command of p is executing
CommandRunning(p) == child[p] = "running"
\* p took the step that leaves the given place of main
Leaves(p, at) == pc[p] = at /\ pc'[p] # at
\* deletes issued for one invocation, by the guard and by the process it forked
Deletes(p) == delCount[p] + cdelCount[p]
\* p was killed after its add succeeded and before its release
\* p's invocation has ended: exit(ret), or the panic of the constructor
Ended(p) == pc[p] \in {"done", "aborted"}
HolderCrashed(p) == pc[p] = "crashed" /\ outcome[p] = "acquired" /\ delCount[p] = 0

\* ------------------------------------------------------------------ claims

\* C1: at most one guarded command is running at any time, whatever the mix
\* of retry and -once guards.
C1_MutualExclusion ==
    \A p, q \in Procs : (CommandRunning(p) /\ CommandRunning(q)) => p = q

\* C2: a guard whose command exited normally with code c has itself exited
\* with status c.
C2_ExitStatusPassthrough ==
    \A p \in Procs :
        (/\ pc[p] = "done"
         /\ outcome[p] = "acquired"
         /\ fault[p] # "wait"
         /\ child[p] = "reaped"
         /\ WIFEXITED(status[p]))
        => exitStatus[p] = WEXITSTATUS(status[p])

\* C3: the release of a denied guard leaves the store as it found it, so the
\* record of the holder that caused the denial is still there.
C3_DeniedLeavesRecord ==
    [][\A p \in Procs :
          (Leaves(p, "release") /\ outcome[p] = "denied") => cache' = cache]_vars

\* C4: no guard that got past the construction of the mutex ends without
\* having called release: not the guard process on any path, and not the
\* forked process that goes on in main after a failed exec.
C4_ReleaseOnEveryPath ==
    \A p \in Procs :
        /\ pc[p] \in {"exit", "done"} => delCount[p] >= 1
        /\ (fault[p] = "exec" /\ child[p] \in {"zombie", "reaped"}) => cdelCount[p] >= 1

C4_Witness ==
    \E p, q \in Procs :
        /\ pc[p] = "done" /\ outcome[p] = "denied" /\ delCount[p] = 1
        /\ pc[q] = "done" /\ outcome[q] = "acquired" /\ fault[q] = "exec"
        /\ delCount[q] = 1

\* C5: one invocation of the guard issues exactly one delete in total,
\* counting the process it forked.
C5_ReleaseExactlyOnce ==
    \A p \in Procs : pc[p] = "done" => Deletes(p) = 1

\* C6: a denied guard never forks, keeps ret 0 and exits with status 0.
C6_DeniedNeverSpawns ==
    \A p \in Procs :
        outcome[p] = "denied" =>
            /\ child[p] = "none"
            /\ fault[p] = "none"
            /\ pc[p] \in {"release", "exit", "done"}
            /\ ret[p] = 0
            /\ pc[p] = "done" => exitStatus[p] = 0

C6_Witness ==
    \E p \in Procs :
        /\ outcome[p] = "denied" /\ pc[p] = "done" /\ exitStatus[p] = 0
        /\ child[p] = "none"

\* C7: with retry disabled, an add that finds the key present is the only
\* add of that acquire: it raises AcquireDenied at once, and the denied
\* guard has made one add and no sleep.
C7_FailFastAcquire ==
    /\ [](\A p \in Procs :
            /\ outcome[p] = "denied" => (addCount[p] = 1 /\ sleepCount[p] = 0)
            /\ ~retry[p] => (addCount[p] <= 1 /\ sleepCount[p] = 0 /\ pc[p] # "sleep"))
    /\ [][\A p \in Procs :
            (Leaves(p, "acquire") /\ ~retry[p] /\ cache # NoRecord)
            => (outcome'[p] = "denied" /\ pc'[p] = "release")]_vars

C7_Witness ==
    \E p \in Procs :
        /\ ~retry[p] /\ outcome[p] = "denied" /\ pc[p] = "release"
        /\ addCount[p] = 1 /\ cache # NoRecord /\ cache # p

\* C8: with retry enabled, an add that finds the key present keeps the
\* caller inside acquire (it sleeps and adds again), and an add that finds
\* the key absent succeeds: acquire returns and the key is present, created
\* by the caller, right after that add.
C8_RetryingAcquire ==
    /\ [](\A p \in Procs :
            (retry[p] /\ addCount[p] >= 1 /\ outcome[p] # "acquired")
            => (pc[p] \in {"acquire", "sleep"} /\ outcome[p] = "none"))
    /\ [][\A p \in Procs :
            /\ (Leaves(p, "acquire") /\ retry[p] /\ cache # NoRecord)
               => (pc'[p] = "sleep" /\ outcome'[p] = "none" /\ cache' = cache)
            /\ (Leaves(p, "acquire") /\ retry[p] /\ cache = NoRecord)
               => (pc'[p] = "fork" /\ outcome'[p] = "acquired" /\ cache' = p)
            /\ (Leaves(p, "sleep") /\ retry[p]) => pc'[p] = "acquire"]_vars

C8_Witness ==
    \E p \in Procs :
        /\ retry[p] /\ sleepCount[p] >= 1 /\ addCount[p] >= 2
        /\ pc[p] = "fork" /\ outcome[p] = "acquired" /\ cache = p

\* C9: right after a release the key is absent, whether the release follows
\* the caller's successful acquire or finds the key already absent, and the
\* caller goes on normally.
C9_ReleaseLeavesKeyAbsent ==
    [][\A p \in Procs :
          Leaves(p, "release") => (cache' = NoRecord /\ pc'[p] = "exit")]_vars

C9_Witness ==
    \E p \in Procs :
        /\ pc[p] = "exit" /\ outcome[p] = "acquired" /\ cache = NoRecord
        /\ delCount[p] = 1 /\ cdelCount[p] = 1

\* C10: a guard whose health check found no reachable server has aborted
\* with a non-zero status, has issued no add and no delete, and the step
\* that aborts it leaves the store unchanged.
C10_UnreachableStoreIsFatal ==
    /\ [](\A p \in Procs :
            ~stats[p] =>
                /\ pc[p] = "aborted"
                /\ exitStatus[p] \in 1..255
                /\ addCount[p] = 0 /\ delCount[p] = 0 /\ cdelCount[p] = 0
                /\ child[p] = "none")
    /\ [][\A p \in Procs :
            (Leaves(p, "start") /\ ~stats'[p]) => cache' = cache]_vars

C10_Witness ==
    \E p \in Procs :
        /\ ~stats[p] /\ pc[p] = "aborted" /\ exitStatus[p] = PanicStatus
        /\ cache # NoRecord

\* C11: when fork, exec or waitpid fails inside run_process the guard goes
\* on to finally with ret still 0: its release leaves the key absent and it
\* ends through exit(ret) with status 0.
C11_SpawnFailureAbsorbed ==
    /\ [](\A p \in Procs :
            fault[p] # "none" =>
                /\ pc[p] \in {"wait", "release", "exit", "done"}
                /\ pc[p] = "wait" => fault[p] = "exec"
                /\ ret[p] = 0
                /\ pc[p] \in {"exit", "done"} => delCount[p] = 1
                /\ pc[p] = "done" => exitStatus[p] = 0)
    /\ [][\A p \in Procs :
            (Leaves(p, "release") /\ fault[p] # "none")
            => (cache' = NoRecord /\ pc'[p] = "exit")]_vars

C11_Witness ==
    \E p, q \in Procs :
        /\ pc[p] = "done" /\ fault[p] = "fork" /\ exitStatus[p] = 0 /\ delCount[p] = 1
        /\ pc[q] = "done" /\ fault[q] = "exec" /\ exitStatus[q] = 0 /\ delCount[q] = 1
        /\ cache = NoRecord

\* C12: once a holder has crashed before its release, the record it created
\* stays in the store in every later state, whatever the other guards do (so
\* every later add fails).
C12_CrashedLockPersists ==
    [][\A p \in Procs : (HolderCrashed(p) /\ cache = p) => cache' = p]_vars

\* C13: an add returns success exactly when it finds the key absent, and it
\* then creates the caller's record; an add that finds a record fails and
\* leaves that record alone.  So after one add has succeeded every other add
\* fails until a delete, and the record in the store is the one winner's.
C13_OneWinnerPerRound ==
    /\ [](\A p \in Procs : cache = p => outcome[p] = "acquired")
    /\ [][\A p \in Procs :
            Leaves(p, "acquire") =>
                /\ (outcome'[p] = "acquired") <=> (cache = NoRecord)
                /\ cache = NoRecord => cache' = p
                /\ cache # NoRecord => cache' = cache]_vars

C13_Witness ==
    \E p, q \in Procs :
        /\ p # q
        /\ cache = q /\ outcome[q] = "acquired"
        /\ pc[p] \in {"sleep", "release"} /\ addCount[p] >= 1 /\ outcome[p] # "acquired"

\* C14: release compares no ownership token: a release issued while the
\* store holds a record created by another process deletes that record.  The
\* witness is the state right after a denied guard's release removed the
\* record of a holder that has not released yet.
C14_UncheckedRelease ==
    [][\A p \in Procs :
          (Leaves(p, "release") /\ cache # NoRecord /\ cache # p)
          => cache' = NoRecord]_vars

C14_Witness ==
    \E p, q \in Procs :
        /\ p # q
        /\ outcome[q] = "acquired" /\ pc[q] \in {"fork", "wait"}
        /\ child[q] \in {"none", "forked", "running"}
        /\ delCount[q] = 0 /\ cdelCount[q] = 0
        /\ outcome[p] = "denied" /\ pc[p] = "exit" /\ delCount[p] = 1
        /\ cache = NoRecord

\* C18: when each guard is invoked once, none is killed, every command
\* ends and every process keeps being scheduled, all guards eventually
\* reach their exit, and once they all have, the key is absent.
C18_GuardsTerminate ==
    /\ <>[](\A p \in Procs : Ended(p))
    /\ []((\A p \in Procs : Ended(p)) => cache = NoRecord)

C18_Witness ==
    /\ \A p \in Procs : pc[p] = "done"
    /\ \E p \in Procs : retry[p] /\ sleepCount[p] >= 1 /\ outcome[p] = "acquired"
    /\ \E p \in Procs : outcome[p] = "acquired" /\ child[p] = "reaped" /\ fault[p] = "none"
    /\ cache = NoRecord

\* C15 says that a behaviour exists in which a retrying contender starves
\* although the key is deleted infinitely often; no formula over all
\* behaviours states that.  StarvationFreedom states the opposite, and it is
\* not a property of the guards: under SpecAgain TLC answers it with such a
\* behaviour, in which the other guard, invoked again each time, adds before
\* the starving contender's next poll.
StarvationFreedom ==
    ([]<>(cache = NoRecord)) =>
        \A p \in Procs :
            [](retry[p] /\ pc[p] = "sleep" => <>(pc[p] \notin {"sleep", "acquire"}))

\* C16: within one guard run the child is forked only from the place after
\* the guard's own successful add, and at most once; the guard is in waitpid
\* as long as its child is not reaped; and it calls release only when it has
\* no child or has reaped it, never while the child is running.
C16_GuardStepOrdering ==
    /\ [](\A p \in Procs :
            /\ child[p] # "none" => outcome[p] = "acquired"
            /\ pc[p] = "fork" => (outcome[p] = "acquired" /\ child[p] = "none")
            /\ child[p] \in {"forked", "running", "cleanup", "zombie"} => pc[p] = "wait"
            /\ pc[p] \in {"release", "exit", "done"} => child[p] \in {"none", "reaped"})
    /\ [][\A p \in Procs :
            /\ (child'[p] = "forked" /\ child[p] # "forked")
               => (child[p] = "none" /\ pc[p] = "fork" /\ outcome[p] = "acquired")
            /\ Leaves(p, "release") => child[p] \in {"none", "reaped"}
            /\ (child[p] = "reaped" /\ child'[p] # "reaped") => Ended(p)]_vars

C16_Witness ==
    \E p \in Procs :
        /\ pc[p] = "exit" /\ outcome[p] = "acquired" /\ fault[p] = "none"
        /\ child[p] = "reaped" /\ delCount[p] = 1 /\ addCount[p] = 1

\* C17: with no process killed, a record in the store always belongs to a
\* live guard whose add succeeded and which has not executed its release yet.
C17_NoOrphanedLock ==
    cache # NoRecord =>
        \E p \in Procs :
            /\ cache = p
            /\ outcome[p] = "acquired"
            /\ pc[p] \in {"fork", "wait", "release"}
            /\ delCount[p] = 0

C17_Witness ==
    \E p, q \in Procs :
        /\ p # q
        /\ cache = p /\ pc[p] = "release" /\ outcome[p] = "acquired"
        /\ pc[q] = "done" /\ outcome[q] = "denied"

\* C19: when every guard runs in retry mode, none is killed and every exec
\* succeeds, a release deletes only the record its own process created, the
\* key holds the guard's record from the fork until the guard has reaped its
\* child, and at most one command runs at a time.
C19_RetryModeSound ==
    /\ [](\A p \in Procs :
            /\ pc[p] \in {"fork", "wait", "release"} => cache = p
            /\ child[p] \in {"forked", "running", "zombie"} => cache = p
            /\ \A q \in Procs : (child[p] = "running" /\ child[q] = "running") => p = q)
    /\ [][\A p \in Procs : Leaves(p, "release") => (cache = p /\ cache' = NoRecord)]_vars

C19_Witness ==
    \E p, q \in Procs :
        /\ p # q
        /\ child[p] = "running" /\ cache = p
        /\ pc[q] = "sleep" /\ sleepCount[q] >= 1
====
